---------------------------- MODULE Spec2Model ----------------------------
(***************************************************************************)
(* Model of buildtools/jq_wrapper.c: the host-memory bridge that drives    *)
(* the jq engine from linear memory.  The bridge's own code (flag          *)
(* decoding, the growable output buffer, buf_input, run_jq and process) is *)
(* translated from the C source.  The jq library (parser, compiler,        *)
(* evaluator, serializer) is an external collaborator; it is modelled by   *)
(* the small deterministic engine below.                                   *)
(*                                                                         *)
(* Byte strings are run-length encoded: a sequence of runs [t, n], the     *)
(* text t repeated n times.                                                *)
(***************************************************************************)
EXTENDS Integers, Sequences, FiniteSets, TLC

\* ---------------------------------------------------------------- bounds
MaxInputLen == 2      \* JSON texts in one input buffer
FlagBits    == 5      \* flag words range over -2^FlagBits .. 2^FlagBits - 1
StrFill     == 4073   \* characters of the long string member of the object
MaxAppends  == 2      \* appends between two resets, the buffer on its own

\* ------------------------------------------------------------- constants
FLAG_SLURP      == 1
FLAG_NULL_INPUT == 2
FLAG_COMPACT    == 4
FLAG_SORT_KEYS  == 8

RC_ERROR_INIT    == -3
RC_ERROR_COMPILE == -1

INITIAL_CAP == 4096

\* ----------------------------------------------------------------- bytes
Run(t, n) == [t |-> t, n |-> n]

Lit(t) == << Run(t, 1) >>

\* the number of bytes of bs, by halves to keep the evaluation shallow
RECURSIVE ByteLen(_)
ByteLen(bs) ==
    IF bs = << >> THEN 0
    ELSE IF Len(bs) = 1 THEN Len(bs[1].t) * bs[1].n
    ELSE ByteLen(SubSeq(bs, 1, Len(bs) \div 2))
         + ByteLen(SubSeq(bs, Len(bs) \div 2 + 1, Len(bs)))

\* the first n bytes of bs (n falls on a run boundary or inside a
\* repetition of a one-character run)
RECURSIVE TakeBytes(_, _)
TakeBytes(bs, n) ==
    IF n <= 0 \/ bs = << >> THEN << >>
    ELSE IF Len(bs) = 1
    THEN IF Len(bs[1].t) * bs[1].n <= n THEN bs
         ELSE << Run(bs[1].t, n \div Len(bs[1].t)) >>
    ELSE LET left == SubSeq(bs, 1, Len(bs) \div 2)
             l    == ByteLen(left)
         IN  IF n <= l THEN TakeBytes(left, n)
             ELSE left \o TakeBytes(SubSeq(bs, Len(bs) \div 2 + 1, Len(bs)), n - l)

\* ------------------------------------------------------------- jv values
\* Every value is a record of the same shape: kind, key (the member name
\* when the value is a member of an object) and items (array elements or
\* object members, in insertion order).
Jv(kind, key, items) == [kind |-> kind, key |-> key, items |-> items]

jv_invalid == Jv("invalid", "", << >>)
jv_null    == Jv("null", "", << >>)
jv_number  == Jv("number", "", << >>)
jv_array   == Jv("array", "", << >>)
jv_object  == Jv("object", "",
                 << Jv("number", "b", << >>), Jv("string", "a", << >>) >>)

jv_is_valid(v) == v.kind # "invalid"

jv_array_append(a, v) == [a EXCEPT !.items = @ \o << v >>]

\* ----------------------------------------------------------- serializer
\* jv_dump_string: dumpopts is [indent, sorted]; indent = 0 is the compact
\* form, JV_PRINT_SORTED emits object members in key order.
KeyOrder == << "a", "b" >>

RECURSIVE SortedFrom(_, _)
SortedFrom(items, i) ==
    IF i > Len(KeyOrder) THEN << >>
    ELSE SelectSeq(items, LAMBDA m : m.key = KeyOrder[i])
         \o SortedFrom(items, i + 1)

Members(v, opts) ==
    IF v.kind = "object" /\ opts.sorted THEN SortedFrom(v.items, 1)
    ELSE v.items

NewLine(opts, lvl) ==
    IF opts.indent = 0 THEN << >>
    ELSE << Run("\n", 1), Run(" ", opts.indent * lvl) >>

RECURSIVE jv_dump(_, _, _)
RECURSIVE DumpItems(_, _, _, _, _)

DumpItems(kind, items, i, opts, lvl) ==
    IF i > Len(items) THEN << >>
    ELSE (IF i > 1 THEN Lit(",") ELSE << >>)
         \o NewLine(opts, lvl)
         \o (IF kind = "object"
             THEN Lit("\"" \o items[i].key \o "\":")
                  \o (IF opts.indent = 0 THEN << >> ELSE Lit(" "))
             ELSE << >>)
         \o jv_dump(items[i], opts, lvl)
         \o DumpItems(kind, items, i + 1, opts, lvl)

jv_dump(v, opts, lvl) ==
    CASE v.kind = "null"   -> Lit("null")
      [] v.kind = "number" -> Lit("1")
      [] v.kind = "string" -> Lit("\"") \o << Run("x", StrFill) >> \o Lit("\"")
      [] v.kind = "array"  ->
            IF v.items = << >> THEN Lit("[]")
            ELSE Lit("[") \o DumpItems("array", v.items, 1, opts, lvl + 1)
                 \o NewLine(opts, lvl) \o Lit("]")
      [] v.kind = "object" ->
            IF v.items = << >> THEN Lit("{}")
            ELSE Lit("{") \o DumpItems("object", Members(v, opts), 1, opts, lvl + 1)
                 \o NewLine(opts, lvl) \o Lit("}")
      [] OTHER -> << >>

jv_dump_string(v, opts) == jv_dump(v, opts, 0)

\* ------------------------------------------------------------ flag word
\* flags & mask for a one-bit mask (floor division is an arithmetic shift)
FlagSet(flags, mask) == (flags \div mask) % 2 = 1

\* dump options in which JV_PRINT_SORTED is added in the indented form only
DumpOpts_sorted_if_indented(flags) ==
    IF FlagSet(flags, FLAG_COMPACT)
    THEN [indent |-> 0, sorted |-> FALSE]
    ELSE [indent |-> 2, sorted |-> FlagSet(flags, FLAG_SORT_KEYS)]

DumpOpts(flags) ==
    LET base == IF FlagSet(flags, FLAG_COMPACT)
                THEN [indent |-> 0, sorted |-> FALSE]
                ELSE [indent |-> 2, sorted |-> FALSE]
    IN  IF FlagSet(flags, FLAG_SORT_KEYS)
        THEN [base EXCEPT !.sorted = TRUE]
        ELSE base

\* ------------------------------------------------- growable output buffer
\* The accumulator is [buf, len, cap, rc]: buf holds the bytes below len,
\* rc is the result of the last append.
\* an output_reset that leaves output_len as it is
output_reset_keep(out) == out

output_reset(out) == [out EXCEPT !.len = 0, !.buf = TakeBytes(@, 0)]

\* a growth that doubles once instead of until the capacity suffices
GrowCap_once(new_cap, needed) ==
    IF new_cap < needed THEN new_cap * 2 ELSE new_cap

RECURSIVE GrowCap(_, _)
GrowCap(new_cap, needed) ==
    IF new_cap < needed THEN GrowCap(new_cap * 2, needed) ELSE new_cap

\* an output_append that grows into a fresh block without the old bytes
output_append_fresh(out, s, reallocOk) ==
    LET slen   == ByteLen(s)
        needed == out.len + slen
        copied == [out EXCEPT !.buf = TakeBytes(@, out.len) \o s,
                              !.len = @ + slen,
                              !.rc  = 0]
    IN  IF needed > out.cap
        THEN IF ~reallocOk THEN [out EXCEPT !.rc = -1]
             ELSE [copied EXCEPT !.buf = (IF out.len = 0 THEN << >>
                                          ELSE << Run("?", out.len) >>) \o s,
                                 !.cap = GrowCap(IF out.cap # 0 THEN out.cap
                                                 ELSE INITIAL_CAP, needed)]
        ELSE copied

\* reallocOk: whether realloc succeeds, should it be called
output_append(out, s, reallocOk) ==
    LET slen   == ByteLen(s)
        needed == out.len + slen
        copied == [out EXCEPT !.buf = TakeBytes(@, out.len) \o s,
                              !.len = @ + slen,
                              !.rc  = 0]
    IN  IF needed > out.cap
        THEN LET new_cap == GrowCap(IF out.cap # 0 THEN out.cap ELSE INITIAL_CAP,
                                    needed)
             IN  IF ~reallocOk THEN [out EXCEPT !.rc = -1]
                 ELSE [copied EXCEPT !.cap = new_cap]
        ELSE copied

\* output_len, output_cap, needed and new_cap are of type int: 32 bits
INT_MAX == 2147483647

\* whether "new_cap *= 2" leaves the range of int before the loop ends
RECURSIVE GrowOverflows(_, _)
GrowOverflows(new_cap, needed) ==
    IF new_cap < needed
    THEN new_cap > INT_MAX \div 2 \/ GrowOverflows(new_cap * 2, needed)
    ELSE FALSE

\* the signed overflow, if any, that output_append(out, s) runs into:
\* "sum" in output_len + slen, "double" in new_cap *= 2
append_ub(out, s) ==
    LET needed == out.len + ByteLen(s)
    IN  IF ByteLen(s) > INT_MAX - out.len THEN "sum"
        ELSE IF needed > out.cap
                /\ GrowOverflows(IF out.cap # 0 THEN out.cap ELSE INITIAL_CAP, needed)
             THEN "double"
        ELSE "none"

\* what a signed overflow can come to: a wrapped sum is negative, so nothing
\* grows and memcpy writes past the buffer; a wrapped new_cap goes from 2^30
\* to -2^31 and then to 0, where the loop stays; a checked build traps
UbOutcomes(ub) ==
    IF ub = "sum" THEN { "corrupt", "trap" } ELSE { "hang", "trap" }

\* ------------------------------------------------------------- jv parser
\* The input buffer is a sequence of JSON texts; "]" stands for malformed
\* bytes.  After a parse error the parser throws the rest of the buffer away.
ParseText(tok) ==
    CASE tok = "1"     -> jv_number
      [] tok = "{b,a}" -> jv_object
      [] OTHER         -> jv_invalid

jv_parser_new(buf) == [buf |-> buf, pos |-> 0, calls |-> 0]

jv_parser_next(p) ==
    IF p.pos >= Len(p.buf)
    THEN [value |-> jv_invalid, parser |-> [p EXCEPT !.calls = @ + 1]]
    ELSE LET v == ParseText(p.buf[p.pos + 1])
         IN  IF jv_is_valid(v)
             THEN [value |-> v,
                   parser |-> [p EXCEPT !.pos = @ + 1, !.calls = @ + 1]]
             ELSE [value |-> jv_invalid,
                   parser |-> [p EXCEPT !.pos = Len(p.buf), !.calls = @ + 1]]

\* ------------------------------------------------------------- buf_input
NoInput == [alive |-> FALSE, parser |-> jv_parser_new(<< >>), slurped |-> jv_invalid]

buf_input_init(buf, slurp) ==
    [alive   |-> TRUE,
     parser  |-> jv_parser_new(buf),
     slurped |-> IF slurp THEN jv_array ELSE jv_invalid]

\* a buf_input_next that returns every value at once, slurping or not
buf_input_next_noslurp(bi) ==
    LET r == jv_parser_next(bi.parser)
    IN  [value |-> r.value, bi |-> [bi EXCEPT !.parser = r.parser]]

\* a buf_input_next that gives up the slurped array when the parser stops
\* at malformed bytes
RECURSIVE buf_input_next_strict(_)
buf_input_next_strict(bi) ==
    LET r == jv_parser_next(bi.parser)
    IN  IF jv_is_valid(r.value)
        THEN IF jv_is_valid(bi.slurped)
             THEN buf_input_next_strict(
                      [bi EXCEPT !.parser = r.parser,
                                 !.slurped = jv_array_append(@, r.value)])
             ELSE [value |-> r.value, bi |-> [bi EXCEPT !.parser = r.parser]]
        ELSE IF jv_is_valid(bi.slurped) /\ r.parser.pos = bi.parser.pos
             THEN [value |-> bi.slurped,
                   bi |-> [bi EXCEPT !.parser = r.parser, !.slurped = jv_invalid]]
             ELSE [value |-> jv_invalid,
                   bi |-> [bi EXCEPT !.parser = r.parser, !.slurped = jv_invalid]]

\* a buf_input_next that keeps the slurped array after it has returned it
RECURSIVE buf_input_next_reyield(_)
buf_input_next_reyield(bi) ==
    LET r == jv_parser_next(bi.parser)
    IN  IF jv_is_valid(r.value)
        THEN IF jv_is_valid(bi.slurped)
             THEN buf_input_next_reyield(
                      [bi EXCEPT !.parser = r.parser,
                                 !.slurped = jv_array_append(@, r.value)])
             ELSE [value |-> r.value, bi |-> [bi EXCEPT !.parser = r.parser]]
        ELSE IF jv_is_valid(bi.slurped)
             THEN [value |-> bi.slurped, bi |-> [bi EXCEPT !.parser = r.parser]]
             ELSE [value |-> jv_invalid, bi |-> [bi EXCEPT !.parser = r.parser]]

RECURSIVE buf_input_next(_)
buf_input_next(bi) ==
    LET r == jv_parser_next(bi.parser)
    IN  IF jv_is_valid(r.value)
        THEN IF jv_is_valid(bi.slurped)
             THEN buf_input_next([bi EXCEPT !.parser = r.parser,
                                            !.slurped = jv_array_append(@, r.value)])
             ELSE [value |-> r.value, bi |-> [bi EXCEPT !.parser = r.parser]]
        ELSE IF jv_is_valid(bi.slurped)
             THEN [value |-> bi.slurped,
                   bi |-> [bi EXCEPT !.parser = r.parser, !.slurped = jv_invalid]]
             ELSE [value |-> jv_invalid, bi |-> [bi EXCEPT !.parser = r.parser]]

\* a callback that reads from a copy of the buf_input
buf_input_cb_copy(bi) == [value |-> buf_input_next(bi).value, bi |-> bi]

buf_input_cb(bi) == buf_input_next(bi)

\* a buf_input_free that frees nothing
buf_input_free_leak(bi) == bi

buf_input_free(bi) == NoInput

\* ---------------------------------------------------------------- engine
\* A compiled program is the sequence of outputs it yields for one input:
\* "dot" yields the input value, "input" yields the next value of the
\* registered input callback and raises an error when there is none.
BadFilter == "("

Filters == { ".", ".,.,.", ".,input", BadFilter }

Program(filter) ==
    CASE filter = "."       -> << "dot" >>
      [] filter = ".,.,."   -> << "dot", "dot", "dot" >>
      [] filter = ".,input" -> << "dot", "input" >>
      [] OTHER              -> << >>

jq_compile_ok(filter) == filter \in { ".", ".,.,.", ".,input" }

jq_compile(j, filter) ==
    [j EXCEPT !.prog = Program(filter), !.val = jv_invalid, !.k = 0]

jq_set_input_cb(j, cb) == [j EXCEPT !.cb = cb]

jq_start(j, v) == [j EXCEPT !.val = v, !.k = 0]

\* one result of the running program; bi is the buf_input the callback reads
jq_next(j, bi) ==
    IF j.k >= Len(j.prog)
    THEN [value |-> jv_invalid, jq |-> [j EXCEPT !.val = jv_invalid], bi |-> bi,
          pulled |-> << >>]
    ELSE IF j.prog[j.k + 1] = "dot"
         THEN [value |-> j.val, jq |-> [j EXCEPT !.k = @ + 1], bi |-> bi,
               pulled |-> << >>]
         ELSE IF ~j.cb
              THEN [value |-> jv_invalid,
                    jq |-> [j EXCEPT !.k = Len(j.prog), !.val = jv_invalid],
                    bi |-> bi, pulled |-> << >>]
              ELSE LET r == buf_input_cb(bi)
                   IN  IF jv_is_valid(r.value)
                       THEN [value |-> r.value, jq |-> [j EXCEPT !.k = @ + 1],
                             bi |-> r.bi, pulled |-> << r.value >>]
                       ELSE [value |-> jv_invalid,
                             jq |-> [j EXCEPT !.k = Len(j.prog), !.val = jv_invalid],
                             bi |-> r.bi, pulled |-> << >>]

\* ----------------------------------------------------------------- state
VARIABLES
    jq,          \* the engine handle: [init, prog, cb, val, k]
    output_buf,  \* bytes of the output buffer below output_len
    output_len,
    output_cap,
    input,       \* the buf_input of the call in progress
    dumpopts,    \* the dump options of the call in progress
    pc,          \* "loop", "run": inside process; "returned": process has
                 \* returned and the host has not read the output yet; "idle"
    call,        \* arguments of the current (or last) call of process
    rc,          \* what the call of process returned (when pc = "returned")
    hist         \* what the current (or last) call has done so far

vars == << jq, output_buf, output_len, output_cap, input, dumpopts, pc, call,
           rc, hist >>

Texts == { "1", "{b,a}", "]" }

RECURSIVE SeqsUpTo(_, _)
SeqsUpTo(S, n) ==
    IF n = 0 THEN { << >> }
    ELSE LET shorter == SeqsUpTo(S, n - 1)
         IN  shorter \cup { Append(q, x) : q \in shorter, x \in S }

\* every input of up to MaxInputLen texts, and one with malformed bytes
\* between two values
Inputs == SeqsUpTo(Texts, MaxInputLen) \cup { << "1", "]", "{b,a}" >> }

FlagWords == (0 - 2 ^ FlagBits) .. (2 ^ FlagBits - 1)

\* the flag words that differ in the bits below FLAG_SORT_KEYS
CoreFlagWords == 0 .. (FLAG_SORT_KEYS - 1)

\* the calls of Spec: every input and filter, the core flag words
Calls == [input : Inputs, filter : Filters, flags : CoreFlagWords]

\* the calls of SpecFlags: every flag word, over inputs with an object
FlagCalls == [input : { << "{b,a}" >>, << "1", "{b,a}" >> },
              filter : { ".", BadFilter }, flags : FlagWords]

NoCall == [input |-> << >>, filter |-> ".", flags |-> 0]

\* compile: the outcome of jq_compile; inits, frees: calls of buf_input_init
\* and buf_input_free; nexts: calls of buf_input_next by process itself;
\* parsed: calls of jv_parser_next; started: the values given to jq_start;
\* pulled: the values the input callback returned; lost: an append failed;
\* asked: calls of buf_input_next, by process or by the callback; yielded:
\* the values buf_input_next returned, in order, each with its receiver;
\* run_rc: what the latest run_jq returned; appended: the bytes of the
\* appends that succeeded since the reset
NoHist == [compile |-> "none", inits |-> 0, frees |-> 0, nexts |-> 0,
           parsed |-> 0, started |-> << >>, pulled |-> << >>, lost |-> FALSE,
           asked |-> 0, yielded |-> << >>, run_rc |-> 0, appended |-> << >>]

\* the record of one jq_next: r is its result, bi the buf_input before it
Pulled(h, bi, r) ==
    [h EXCEPT !.pulled  = @ \o r.pulled,
              !.parsed  = r.bi.parser.calls,
              !.asked   = @ + (IF r.bi.parser.calls > bi.parser.calls THEN 1 ELSE 0),
              !.yielded = @ \o (IF r.pulled = << >> THEN << >>
                                ELSE << [v |-> r.pulled[1], by |-> "pull"] >>)]

\* the bytes that one append_record has added to out
AppendedBy(out, a, dumped) ==
    IF a.rc = 0 THEN dumped \o Lit("\n")
    ELSE IF a.len > out.len THEN dumped
    ELSE << >>

NoOpts == [indent |-> 0, sorted |-> FALSE]

Out == [buf |-> output_buf, len |-> output_len, cap |-> output_cap, rc |-> 0]

\* jq_wrapper_init: jq_init() returns NULL when it cannot allocate
Init ==
    /\ \E ok \in BOOLEAN :
          jq = [init |-> ok, prog |-> << >>, cb |-> FALSE, val |-> jv_invalid,
                k |-> 0]
    /\ output_buf = << >>
    /\ output_len = 0
    /\ output_cap = 0
    /\ input = NoInput
    /\ dumpopts = NoOpts
    /\ pc = "idle"
    /\ call = NoCall
    /\ rc = 0
    /\ hist = NoHist

\* a process without the check of the engine handle
engine_ready_unchecked(j) == TRUE

\* process, line 147: the engine handle is there
engine_ready(j) == j.init

\* process, line 169: the slurp argument of buf_input_init
slurp_mode(flags) == FlagSet(flags, FLAG_SLURP)

\* a process that tests the slurp bit where it should test null-input
null_input_wrong_bit(flags) == FlagSet(flags, FLAG_SLURP)

\* process, line 173: the branch on the null-input flag
null_input(flags) == FlagSet(flags, FLAG_NULL_INPUT)

\* a run_jq that tries the newline also when the text could not be appended
append_record_both(out, dumped, ok1, ok2) ==
    LET a1 == output_append(out, dumped, ok1)
        a2 == output_append(a1, Lit("\n"), ok2)
    IN  IF a1.rc < 0 THEN [a2 EXCEPT !.rc = -1] ELSE a2

\* a run_jq that forgets the newline after the serialized result
append_record_no_newline(out, dumped, ok1, ok2) ==
    output_append(out, dumped, ok1)

\* run_jq, line 126: the serialized result, then a newline; the second
\* append is not tried when the first fails
append_record(out, dumped, ok1, ok2) ==
    LET a1 == output_append(out, dumped, ok1)
    IN  IF a1.rc < 0 THEN a1 ELSE output_append(a1, Lit("\n"), ok2)

\* what process returns once the input is exhausted
process_result(out, run_rc) == out.len

\* process, lines 181-183: unregister the callback, free the input, return
Finish(j, bi, out, h, run_rc) ==
    /\ jq' = jq_set_input_cb(j, FALSE)
    /\ input' = buf_input_free(bi)
    /\ output_buf' = out.buf
    /\ output_len' = out.len
    /\ output_cap' = out.cap
    /\ hist' = [h EXCEPT !.frees = @ + 1, !.parsed = bi.parser.calls]
    /\ rc' = process_result(out, run_rc)
    /\ pc' = "returned"
    /\ dumpopts' = NoOpts
    /\ call' = call

Return(code) ==
    /\ rc' = code
    /\ pc' = "returned"

\* process, lines 147-175: up to the branch on FLAG_NULL_INPUT
Process(input_ptr, filter_ptr, flags) ==
    /\ pc = "idle"
    /\ \E mallocOk \in BOOLEAN :
          IF ~engine_ready(jq)
          THEN /\ Return(RC_ERROR_INIT)
               /\ UNCHANGED << jq, output_buf, output_len, output_cap, input,
                               dumpopts, call, hist >>
          ELSE LET out == output_reset(Out)
                   args == [input |-> input_ptr, filter |-> filter_ptr,
                            flags |-> flags]
               IN  /\ output_buf' = out.buf
                   /\ output_len' = out.len
                   /\ output_cap' = out.cap
                   /\ call' = args
                   /\ IF ~mallocOk
                      THEN /\ Return(RC_ERROR_INIT)
                           /\ hist' = NoHist
                           /\ UNCHANGED << jq, input, dumpopts >>
                      ELSE IF ~jq_compile_ok(filter_ptr)
                      THEN /\ Return(RC_ERROR_COMPILE)
                           /\ jq' = jq_compile(jq, filter_ptr)
                           /\ hist' = [NoHist EXCEPT !.compile = "fail"]
                           /\ UNCHANGED << input, dumpopts >>
                      ELSE LET j  == jq_set_input_cb(jq_compile(jq, filter_ptr), TRUE)
                               bi == buf_input_init(input_ptr, slurp_mode(flags))
                               h  == [NoHist EXCEPT !.compile = "ok", !.inits = 1]
                           IN  /\ dumpopts' = DumpOpts(flags)
                               /\ input' = bi
                               /\ rc' = 0
                               /\ IF null_input(flags)
                                  THEN /\ jq' = jq_start(j, jv_null)
                                       /\ hist' = [h EXCEPT !.started = << jv_null >>]
                                       /\ pc' = "run"
                                  ELSE /\ jq' = j
                                       /\ hist' = h
                                       /\ pc' = "loop"

\* process, lines 177-183: the loop condition, then run_jq's jq_start or the
\* end of the call
LoopNext ==
    /\ pc = "loop"
    /\ LET r == buf_input_next(input)
       IN  IF jv_is_valid(r.value)
           THEN /\ input' = r.bi
                /\ jq' = jq_start(jq, r.value)
                /\ hist' = [hist EXCEPT !.started = Append(@, r.value),
                                        !.nexts = @ + 1, !.parsed = r.bi.parser.calls,
                                        !.asked = @ + 1,
                                        !.yielded = Append(@, [v |-> r.value,
                                                               by |-> "loop"])]
                /\ pc' = "run"
                /\ UNCHANGED << output_buf, output_len, output_cap, dumpopts,
                                call, rc >>
           ELSE Finish(jq, r.bi, Out,
                       [hist EXCEPT !.nexts = @ + 1, !.asked = @ + 1], 0)

\* run_jq, lines 122-134: one iteration of the result loop; when run_jq
\* returns, process goes on (back to its loop, or to its end after the
\* single run of the null-input branch)
RunNext ==
    /\ pc = "run"
    /\ \E ok1, ok2 \in BOOLEAN :
          LET r == jq_next(jq, input)
              h == Pulled(hist, input, r)
          IN  IF jv_is_valid(r.value)
              THEN LET dumped == jv_dump_string(r.value, dumpopts)
                       a2 == append_record(Out, dumped, ok1, ok2)
                   IN  IF a2.rc < 0
                       THEN LET d  == jq_next(r.jq, r.bi)
                                hl == [Pulled(h, r.bi, d) EXCEPT
                                          !.lost = TRUE, !.run_rc = -1,
                                          !.appended = @ \o AppendedBy(Out, a2, dumped)]
                            IN  IF null_input(call.flags)
                                THEN /\ Finish(d.jq, d.bi, a2, hl, -1)
                                ELSE /\ jq' = d.jq
                                     /\ input' = d.bi
                                     /\ output_buf' = a2.buf
                                     /\ output_len' = a2.len
                                     /\ output_cap' = a2.cap
                                     /\ hist' = hl
                                     /\ pc' = "loop"
                                     /\ UNCHANGED << dumpopts, call, rc >>
                       ELSE /\ jq' = r.jq
                            /\ input' = r.bi
                            /\ output_buf' = a2.buf
                            /\ output_len' = a2.len
                            /\ output_cap' = a2.cap
                            /\ hist' = [h EXCEPT !.appended =
                                                  @ \o AppendedBy(Out, a2, dumped)]
                            /\ UNCHANGED << dumpopts, call, pc, rc >>
              ELSE IF null_input(call.flags)
                   THEN Finish(r.jq, r.bi, Out, [h EXCEPT !.run_rc = 0], 0)
                   ELSE /\ jq' = r.jq
                        /\ input' = r.bi
                        /\ hist' = [h EXCEPT !.run_rc = 0]
                        /\ pc' = "loop"
                        /\ UNCHANGED << output_buf, output_len, output_cap,
                                        dumpopts, call, rc >>

\* the host reads the output (get_output_ptr, get_output_len) after
\* process has returned; the record of the call ends here
get_output_len == output_len

GetOutput ==
    /\ pc = "returned"
    /\ pc' = "idle"
    /\ call' = NoCall
    /\ hist' = NoHist
    /\ rc' = 0
    /\ UNCHANGED << jq, output_buf, output_len, output_cap, input, dumpopts >>

Next ==
    \/ \E c \in Calls : Process(c.input, c.filter, c.flags)
    \/ LoopNext
    \/ RunNext
    \/ GetOutput

Spec == Init /\ [][Next]_vars

NextFlags ==
    \/ \E c \in FlagCalls : Process(c.input, c.filter, c.flags)
    \/ LoopNext
    \/ RunNext
    \/ GetOutput

SpecFlags == Init /\ [][NextFlags]_vars

\* ------------------------------------------- the output buffer on its own
\* output_reset and output_append over every buffer the program can hold:
\* a capacity of 0 or 4096 doubled, a length within it, up to the range of
\* int. call is the operation just done, with the buffer it started from.
RECURSIVE Doublings(_)
Doublings(c) ==
    IF c > INT_MAX \div 2 THEN { c } ELSE { c } \cup Doublings(c * 2)

Caps == { 0 } \cup Doublings(INITIAL_CAP)

Lens(cap) == { n \in { 0, 1, cap - 1, cap } : 0 <= n /\ n <= cap }

Filled(n) == IF n = 0 THEN << >> ELSE << Run("x", n) >>

AppendSizes == { 1, INITIAL_CAP, 2 * INITIAL_CAP + 1, 2 ^ 30, INT_MAX }

AppendStrings == { << Run("y", n) >> : n \in AppendSizes } \cup { Lit("\n") }

NoAppend == [op |-> "none", s |-> << >>, reallocOk |-> TRUE, n |-> 0,
             ub |-> "none", old |-> [buf |-> << >>, len |-> 0, cap |-> 0, rc |-> 0]]

InitAppend ==
    /\ jq = [init |-> TRUE, prog |-> << >>, cb |-> FALSE, val |-> jv_invalid,
             k |-> 0]
    /\ \E cap \in Caps : \E n \in Lens(cap) :
          /\ output_cap = cap
          /\ output_len = n
          /\ output_buf = Filled(n)
          /\ hist = [NoHist EXCEPT !.appended = Filled(n)]
    /\ input = NoInput
    /\ dumpopts = NoOpts
    /\ pc = "append"
    /\ call = NoAppend
    /\ rc = 0

Reset ==
    /\ pc = "append"
    /\ LET out == output_reset(Out)
       IN  /\ output_buf' = out.buf
           /\ output_len' = out.len
           /\ output_cap' = out.cap
           /\ call' = [NoAppend EXCEPT !.op = "reset", !.old = Out]
    /\ hist' = [hist EXCEPT !.appended = << >>]
    /\ rc' = 0
    /\ UNCHANGED << jq, input, dumpopts, pc >>

AppendStep(s, reallocOk) ==
    /\ pc = "append"
    /\ call.n < MaxAppends
    /\ LET ub   == append_ub(Out, s)
           this == [op |-> "append", s |-> s, reallocOk |-> reallocOk,
                    n |-> call.n + 1, ub |-> ub, old |-> Out]
       IN  /\ call' = this
           /\ IF ub # "none"
              THEN /\ pc' \in UbOutcomes(ub)
                   /\ UNCHANGED << output_buf, output_len, output_cap, rc, hist >>
              ELSE LET a == output_append(Out, s, reallocOk)
                   IN  /\ output_buf' = a.buf
                       /\ output_len' = a.len
                       /\ output_cap' = a.cap
                       /\ rc' = a.rc
                       /\ hist' = [hist EXCEPT !.appended =
                                       IF a.rc = 0 THEN @ \o s ELSE @]
                       /\ pc' = pc
    /\ UNCHANGED << jq, input, dumpopts >>

NextAppend ==
    \/ Reset
    \/ \E s \in AppendStrings : \E reallocOk \in BOOLEAN : AppendStep(s, reallocOk)

SpecAppend == InitAppend /\ [][NextAppend]_vars

TypeOK ==
    /\ pc \in { "idle", "loop", "run", "returned", "append", "hang", "trap",
               "corrupt" }
    /\ output_len \in Nat
    /\ output_cap \in Nat
    /\ rc \in Int

\* ------------------------------------------------- reference semantics
\* What a call is to produce, as a function of its arguments alone: the
\* flag word is decoded by bit position, the input is consumed by the
\* assembler and the engine, every result is one record.
Bit(w, k) == (w \div (2 ^ k)) % 2 = 1

Decode(flags) == [slurp |-> Bit(flags, 0), nullInput |-> Bit(flags, 1),
                  compact |-> Bit(flags, 2), sortKeys |-> Bit(flags, 3)]

FormatOptions(cfg) == [indent |-> IF cfg.compact THEN 0 ELSE 2,
                       sorted |-> cfg.sortKeys]

Record(v, opts) == jv_dump_string(v, opts) \o Lit("\n")

Engine0(filter) == [init |-> TRUE, prog |-> Program(filter), cb |-> TRUE,
                    val |-> jv_invalid, k |-> 0]

\* the records of one run of the engine and the assembler it leaves
RECURSIVE RunRecords(_, _, _)
RunRecords(j, bi, opts) ==
    LET r == jq_next(j, bi)
    IN  IF ~jv_is_valid(r.value) THEN [out |-> << >>, bi |-> r.bi]
        ELSE LET rest == RunRecords(r.jq, r.bi, opts)
             IN  [out |-> Record(r.value, opts) \o rest.out, bi |-> rest.bi]

\* the values the orchestrator loop starts the engine on, and the records
RECURSIVE LoopRecords(_, _, _)
LoopRecords(filter, bi, opts) ==
    LET r == buf_input_next(bi)
    IN  IF ~jv_is_valid(r.value) THEN [out |-> << >>, started |-> << >>]
        ELSE LET run  == RunRecords(jq_start(Engine0(filter), r.value), r.bi, opts)
                 rest == LoopRecords(filter, run.bi, opts)
             IN  [out |-> run.out \o rest.out,
                  started |-> << r.value >> \o rest.started]

Expected(in, filter, cfg) ==
    LET opts == FormatOptions(cfg)
        bi   == buf_input_init(in, cfg.slurp)
    IN  IF cfg.nullInput
        THEN [out |-> RunRecords(jq_start(Engine0(filter), jv_null), bi, opts).out,
              started |-> << jv_null >>]
        ELSE LoopRecords(filter, bi, opts)

\* the bytes the host reads after the call
Output == TakeBytes(output_buf, get_output_len)

WellFormed(in) == \A i \in 1 .. Len(in) : jv_is_valid(ParseText(in[i]))

RECURSIVE Values(_)
Values(in) ==
    IF in = << >> THEN << >>
    ELSE << ParseText(Head(in)) >> \o Values(Tail(in))

RECURSIVE Records(_, _)
Records(vs, opts) ==
    IF vs = << >> THEN << >>
    ELSE Record(Head(vs), opts) \o Records(Tail(vs), opts)

IsPrefix(p, q) == Len(p) <= Len(q) /\ p = SubSeq(q, 1, Len(p))

InCall == pc \in { "loop", "run", "returned" } /\ hist.compile = "ok"

Returned == pc = "returned" /\ hist.compile = "ok"

\* one result per value, no pull of extra input
OnePerValue(filter) == Program(filter) = << "dot" >>

NoPull(filter) == \A i \in 1 .. Len(Program(filter)) : Program(filter)[i] # "input"

\* ----------------------------------------------------------------- claims

\* C1: without slurp and null-input, over N well-formed values and a filter
\* with one result per value and no pull, the engine is started once per
\* value in input order, and at return (no append having failed) the output
\* is the N serialized records, each followed by a newline, in input order.
C1_OneRecordPerValue ==
    (/\ InCall
     /\ ~Bit(call.flags, 0) /\ ~Bit(call.flags, 1)
     /\ WellFormed(call.input) /\ OnePerValue(call.filter))
    => /\ IsPrefix(hist.started, Values(call.input))
       /\ pc = "returned" => hist.started = Values(call.input)
       /\ (pc = "returned" /\ ~hist.lost)
          => /\ Output = Records(Values(call.input), FormatOptions(Decode(call.flags)))
             /\ rc = ByteLen(Output)

C1_Witness ==
    /\ Returned /\ ~hist.lost
    /\ ~Bit(call.flags, 0) /\ ~Bit(call.flags, 1)
    /\ OnePerValue(call.filter)
    /\ call.input = << "{b,a}", "1" >>
    /\ rc > 0

\* C2: with slurp and without null-input, over N well-formed values, the
\* engine is started exactly once, on the array of all N values in input
\* order; with the pass-through filter the output is that one record.
C2_SlurpOneArray ==
    (/\ Returned
     /\ Bit(call.flags, 0) /\ ~Bit(call.flags, 1)
     /\ WellFormed(call.input))
    => /\ hist.started = << Jv("array", "", Values(call.input)) >>
       /\ (call.filter = "." /\ ~hist.lost)
          => /\ Output = Record(Jv("array", "", Values(call.input)),
                                FormatOptions(Decode(call.flags)))
             /\ rc = ByteLen(Output)

C2_Witness ==
    /\ Returned /\ ~hist.lost
    /\ Bit(call.flags, 0) /\ ~Bit(call.flags, 1)
    /\ call.filter = "."
    /\ call.input = << "{b,a}", "1" >>
    /\ rc > 0

\* C3: with null-input the engine is started exactly once, on null, and
\* process itself never calls buf_input_next; unless the filter pulls input
\* the parser is never asked for a value, so the input bytes (malformed or
\* not) change neither the output nor the return value.
C3_NullInputIgnoresInput ==
    (InCall /\ Bit(call.flags, 1))
    => /\ hist.started = << jv_null >>
       /\ hist.nexts = 0
       /\ NoPull(call.filter)
          => /\ hist.parsed = 0
             /\ input.parser.pos = 0
             /\ (pc = "returned" /\ ~hist.lost)
                => /\ Output = Expected(<< >>, call.filter, Decode(call.flags)).out
                   /\ rc = ByteLen(Output)

C3_Witness ==
    /\ Returned /\ ~hist.lost
    /\ Bit(call.flags, 1)
    /\ NoPull(call.filter)
    /\ call.input = << "]", "1" >>
    /\ rc > 0

\* C4: the output and the return value of a successful call (one in which
\* every result was appended) are a function of that call's input, filter
\* and flags: the return value is get_output_len and the length of exactly
\* the records of this call, whatever earlier calls left in the buffer.
C4_CallIsolation ==
    (Returned /\ ~hist.lost)
    => /\ rc = get_output_len
       /\ Output = Expected(call.input, call.filter, Decode(call.flags)).out
       /\ rc = ByteLen(Expected(call.input, call.filter, Decode(call.flags)).out)

\* a short output in a buffer that an earlier, longer output has grown
C4_Witness ==
    /\ Returned /\ ~hist.lost
    /\ rc > 0
    /\ rc < INITIAL_CAP
    /\ output_cap > INITIAL_CAP

\* C5: when the filter does not compile, process returns -1, the output
\* length is 0, no buf_input was constructed, nothing was parsed, no input
\* callback is registered and the engine was never started.
C5_CompileFailure ==
    (pc = "returned" /\ hist.compile = "fail")
    => /\ rc = -1
       /\ get_output_len = 0
       /\ hist.inits = 0
       /\ ~input.alive
       /\ hist.parsed = 0
       /\ hist.nexts = 0
       /\ ~jq.cb
       /\ hist.started = << >>

\* a compile failure after a call that left output in the buffer
C5_Witness ==
    /\ pc = "returned" /\ hist.compile = "fail"
    /\ output_cap > 0

\* C6: no partial success: when an append to the output buffer has failed
\* during a call, process returns a negative code.
C6_NoPartialSuccess ==
    (pc = "returned" /\ hist.lost) => rc < 0

\* C7: without an engine handle every call of process returns -3 at once
\* and leaves the whole state of the bridge as it was: no reset, no compile,
\* no buf_input, no input callback.
C7_InitErrorFirst ==
    [][(pc = "idle" /\ ~jq.init)
       => /\ pc' = "returned"
          /\ rc' = -3
          /\ UNCHANGED << jq, output_buf, output_len, output_cap, input,
                          dumpopts, hist >>]_vars

C7_Witness ==
    /\ pc = "returned"
    /\ ~jq.init
    /\ rc = -3

\* C8: process returns -3 only when the engine handle is absent.
C8_InitCodeOnlyWithoutHandle ==
    (pc = "returned" /\ rc = -3) => ~jq.init

\* C9: the flag word is decoded by bit position (slurp = bit 0, null-input
\* = bit 1, compact = bit 2, sort-keys = bit 3), each toggle on its own;
\* compact gives no indentation and otherwise 2 spaces, sort-keys gives
\* sorted keys in either form, and the bits above bit 3 change nothing of
\* what the call does.
C9_FlagDecoding ==
    InCall
    => /\ pc # "returned"
          => dumpopts = [indent |-> IF Bit(call.flags, 2) THEN 0 ELSE 2,
                         sorted |-> Bit(call.flags, 3)]
       /\ IsPrefix(hist.started,
                   Expected(call.input, call.filter, Decode(call.flags % 16)).started)
       /\ (pc = "returned" /\ ~hist.lost)
          => /\ hist.started
                = Expected(call.input, call.filter, Decode(call.flags % 16)).started
             /\ Output = Expected(call.input, call.filter, Decode(call.flags % 16)).out

\* a flag word with bits above bit 3, compact and sort-keys over an object
C9_Witness ==
    /\ Returned /\ ~hist.lost
    /\ call.flags \div 16 # 0
    /\ Bit(call.flags, 2) /\ Bit(call.flags, 3) /\ ~Bit(call.flags, 1)
    /\ call.input = << "1", "{b,a}" >>
    /\ call.filter = "."
    /\ rc > 0

\* C10: 0 <= output_len <= output_cap in every state; the reset at the
\* start of a call sets output_len to 0 and keeps output_cap, and no step
\* lowers output_cap.
C10_LenWithinCap ==
    /\ [](0 <= output_len /\ output_len <= output_cap)
    /\ [][/\ output_cap' >= output_cap
          /\ (pc = "idle" /\ jq.init)
             => (output_len' = 0 /\ output_cap' = output_cap)]_vars

\* appends after a failed one, in a buffer that has grown
C10_Witness ==
    /\ pc = "returned"
    /\ hist.lost
    /\ output_len > 0
    /\ output_cap > INITIAL_CAP

\* C11: an append that succeeds leaves the bytes below the old length as
\* they were, also when the buffer grew, puts the appended bytes right
\* after them and adds their count to the length; an append that fails
\* leaves length, capacity and bytes as they were; so the bytes below
\* the length are always the successfully appended strings, in order.
C11_AppendOnly ==
    /\ (call.op = "append" /\ pc = "append" /\ rc = 0) =>
          /\ TakeBytes(output_buf, call.old.len) = call.old.buf
          /\ output_buf = call.old.buf \o call.s
          /\ output_len = call.old.len + ByteLen(call.s)
    /\ (call.op = "append" /\ pc = "append" /\ rc < 0) =>
          /\ output_len = call.old.len
          /\ output_cap = call.old.cap
          /\ output_buf = call.old.buf
    /\ pc = "append" => Output = hist.appended

\* a second append in a row that made a buffer with bytes in it grow
C11_Witness ==
    /\ pc = "append" /\ call.op = "append" /\ call.n = 2 /\ rc = 0
    /\ call.old.len > 0
    /\ output_cap > call.old.cap
    /\ call.old.cap > 0

C13_DrainsAll ==
    (pc \in { "loop", "returned" } /\ hist.compile = "ok" /\ hist.run_rc < 0)
        => jq.k >= Len(jq.prog)

\* C14: whenever process has returned after a successful compilation, the
\* output is made of complete records: it is empty or its last byte is the
\* newline that ends the last record.
C14_CompleteRecords ==
    (pc = "returned" /\ hist.compile = "ok") =>
        \/ Output = << >>
        \/ Output[Len(Output)].t = "\n"

\* the values of an input up to its end or its first malformed text
RECURSIVE ParsedValues(_)
ParsedValues(in) ==
    IF in = << >> THEN << >>
    ELSE IF ~jv_is_valid(ParseText(Head(in))) THEN << >>
    ELSE << ParseText(Head(in)) >> \o ParsedValues(Tail(in))

Aggregate(in) == [jv_array EXCEPT !.items = ParsedValues(in)]

\* C15: in a call with the slurp flag, whoever calls buf_input_next, the
\* process loop or the input callback: nothing has been yielded and nothing
\* parsed before the first call; the first call exhausts the parser and
\* yields the array of every parsed value in parse order; every later call
\* yields the end marker, so the array is yielded exactly once.
C15_SlurpYieldsOnce ==
    (InCall /\ Bit(call.flags, 0)) =>
        /\ hist.asked = 0 =>
              /\ hist.yielded = << >>
              /\ input.alive => input.parser.calls = 0
        /\ hist.asked >= 1 =>
              /\ Len(hist.yielded) = 1
              /\ hist.yielded[1].v = Aggregate(call.input)
              /\ input.alive => input.parser.pos = Len(call.input)

\* a slurping call of two values that has returned after three calls of
\* buf_input_next, one of them by the callback
C15_Witness ==
    /\ Returned /\ Bit(call.flags, 0) /\ ~Bit(call.flags, 1)
    /\ hist.asked = 3 /\ hist.nexts = 2
    /\ Len(hist.yielded) = 1
    /\ Len(hist.yielded[1].v.items) = 2

\* what the buf_input of a call has to hand out: the one array when
\* slurping, the parsed values otherwise
Source(in, flags) ==
    IF Bit(flags, 0) THEN << Aggregate(in) >> ELSE ParsedValues(in)

YieldedTo(by) ==
    LET mine == SelectSeq(hist.yielded, LAMBDA y : y.by = by)
    IN  [i \in 1 .. Len(mine) |-> mine[i].v]

\* C16: the process loop and the input callback draw from the one
\* buf_input: the values it has yielded, in the order of the calls, are the
\* first values of the input in input order, each handed out once; those
\* yielded to the loop are the values the engine was started on, those
\* yielded to the callback are the answers to the pulls; and when a call
\* without the null-input flag returns, every value has been handed out.
C16_EachValueOnce ==
    InCall =>
        /\ IsPrefix([i \in 1 .. Len(hist.yielded) |-> hist.yielded[i].v],
                    Source(call.input, call.flags))
        /\ YieldedTo("pull") = hist.pulled
        /\ ~Bit(call.flags, 1) => YieldedTo("loop") = hist.started
        /\ Bit(call.flags, 1) => YieldedTo("loop") = << >>
        /\ (pc = "returned" /\ ~Bit(call.flags, 1)) =>
              Len(hist.yielded) = Len(Source(call.input, call.flags))

\* a call has returned whose first value went to the loop and whose second
\* value went to a pull of the filter
C16_Witness ==
    /\ Returned /\ call.flags = 0 /\ ~hist.lost
    /\ hist.started = << jv_number >>
    /\ hist.pulled = << jv_object >>
    /\ hist.asked = 3

\* C17: the input callback is registered only inside a call, after a
\* successful compilation, while the buf_input of that call is alive;
\* whenever process has returned, with whatever code, no callback is
\* registered and no buf_input is alive; a call constructs a buf_input only
\* after a successful compilation, once, and has destroyed it once when it
\* returns.
C17_InputLifetime ==
    /\ jq.cb => (pc \in { "loop", "run" } /\ hist.compile = "ok" /\ input.alive)
    /\ pc \in { "loop", "run" } =>
          (jq.cb /\ input.alive /\ hist.inits = 1 /\ hist.frees = 0)
    /\ pc \in { "idle", "returned" } => (~jq.cb /\ ~input.alive)
    /\ pc = "returned" =>
          /\ hist.frees = hist.inits
          /\ hist.inits = IF hist.compile = "ok" THEN 1 ELSE 0

\* a call has returned whose callback was called and whose buf_input was
\* constructed and destroyed
C17_Witness ==
    /\ Returned /\ rc > 0
    /\ hist.inits = 1 /\ hist.frees = 1
    /\ Len(hist.pulled) = 1
    /\ ~jq.cb /\ ~input.alive

\* C18: a call without the null-input flag whose input has malformed
\* bytes returns no negative code; a filter that pulls no input is run on
\* each value before the malformed bytes, in order, and on nothing after
\* them, or, when slurping, once on the array of those values; the
\* output is the records of those runs.
C18_MalformedIsEnd ==
    (Returned /\ ~Bit(call.flags, 1) /\ ~WellFormed(call.input)) =>
        /\ rc >= 0
        /\ NoPull(call.filter) =>
              /\ hist.started = Source(call.input, call.flags)
              /\ (~hist.lost /\ OnePerValue(call.filter)) =>
                    Output = Records(Source(call.input, call.flags),
                                     FormatOptions(Decode(call.flags)))

\* a call has returned 2 for the record "1" of an input with malformed
\* bytes between two values
C18_Witness ==
    /\ Returned /\ ~hist.lost
    /\ call = [input |-> << "1", "]", "{b,a}" >>, filter |-> ".", flags |-> 0]
    /\ hist.started = << jv_number >>
    /\ rc = 2

\* a slurping call has returned after running the filter on the array of
\* the value before the malformed bytes
C18_WitnessSlurp ==
    /\ Returned /\ ~hist.lost
    /\ call = [input |-> << "1", "]", "{b,a}" >>, filter |-> ".", flags |-> 5]
    /\ hist.started = << [jv_array EXCEPT !.items = << jv_number >>] >>
    /\ rc > 0

\* c is b doubled some number of times, possibly none
RECURSIVE DoubledFrom(_, _)
DoubledFrom(b, c) ==
    \/ c = b
    \/ c > b /\ c % 2 = 0 /\ DoubledFrom(b, c \div 2)

\* C19: an append that succeeds having needed more than the capacity
\* leaves as capacity the old capacity (4096 when that was 0) doubled as
\* few times as makes it at least the old length plus the appended size;
\* any other append leaves the capacity as it was; so the capacity is
\* always 0 or 4096 doubled some number of times.
C19_GrowthPolicy ==
    /\ pc = "append" => (output_cap = 0 \/ DoubledFrom(4096, output_cap))
    /\ (call.op = "append" /\ pc = "append") =>
          LET needed == call.old.len + ByteLen(call.s)
              base   == IF call.old.cap = 0 THEN 4096 ELSE call.old.cap
          IN  IF rc = 0 /\ needed > call.old.cap
              THEN /\ output_cap >= needed
                   /\ DoubledFrom(base, output_cap)
                   /\ output_cap = base \/ output_cap \div 2 < needed
              ELSE output_cap = call.old.cap

\* an append has made a buffer with bytes in it grow to four times its
\* capacity
C19_Witness ==
    /\ pc = "append" /\ call.op = "append" /\ rc = 0
    /\ call.old.len > 0
    /\ output_cap = 4 * call.old.cap

\* C20: an append whose old length plus appended size is within the range
\* of a 32-bit int returns, fails only when realloc failed, and when it
\* succeeds leaves a capacity of at least that sum: neither the sum nor the
\* doubling leaves the range of int.
C20_NoOverflow ==
    (call.op = "append" /\ ByteLen(call.s) <= 2147483647 - call.old.len) =>
        /\ call.ub = "none"
        /\ pc = "append"
        /\ rc < 0 => ~call.reallocOk
        /\ rc = 0 => output_cap >= call.old.len + ByteLen(call.s)

=============================================================================
